---- MODULE Spec2Model ----
(***************************************************************************)
(* Model of storage/article_tracker.py: the ArticleTracker ledger of seen  *)
(* article URLs, several tracker instances (one per scraper process)       *)
(* working against one remote scraped_articles table.                      *)
(*                                                                         *)
(* Every remote call (.execute()) is one atomic step of the store; the    *)
(* calls of one public method are separate steps, so that the calls of    *)
(* other instances interleave between them.  Each remote call may fail    *)
(* (raise), which the model draws nondeterministically.                    *)
(***************************************************************************)
EXTENDS Integers, Sequences, FiniteSets, TLC

\* ------------------------------------------------------------------ bounds
MaxLen == 2      \* longest URL list passed to filter_new_articles / mark_as_seen
MaxTime == 1     \* the clock runs over 0..MaxTime
MaxId == 2       \* the table's id sequence hands out 1..MaxId

Ledgers == {"L1", "L2"}   \* tracker instances, one per scraper process
Sources == {"siteA", "siteB"}
Urls == {"u1", "u2"}
NoSource == ""   \* get_stats(source_id=None): falsy, as the empty string is

UrlLists == UNION {[1..n -> Urls] : n \in 0..MaxLen}

\* ------------------------------------------------------------------ state
VARIABLES
    table,      \* the rows of scraped_articles
    nextId,     \* the next value of the table's id sequence
    now,        \* the clock (datetime.utcnow() and the store's default)
    testMode,   \* ArticleTracker.TEST_MODE of each instance's process
    client,     \* self.client is set (truthy)
    probed,     \* history: a connect() of the instance succeeded since its
                \* construction or last close()
    fr,         \* the running call of each instance: position and locals
    seenPairs,  \* history: the pairs upserted successfully and not deleted since
    last        \* the step just taken: the method, its arguments, its outcome

vars == <<table, nextId, now, testMode, client, probed, fr, seenPairs, last>>

\* the instances that exist
Instances == DOMAIN fr

\* ------------------------------------------------------------------ helpers
Range(s) == {s[i] : i \in 1..Len(s)}

\* the locals of an instance with no call running
Idle == [pc |-> "idle", source_id |-> NoSource, urls |-> <<>>, idx |-> 0,
         marked |-> 0, current_time |-> 0, oks |-> <<>>, calls |-> 0,
         count |-> 0, oldest |-> <<>>]

\* the record of a step: op is the method and at its position ("return",
\* "raise", or "step" when the call goes on), fail tells that the remote call
\* of the step raised, calls counts the remote calls of the method so far, oks
\* lists the outcomes of the upserts so far, and after is <<n>> when the step
\* directly follows the return of n by a mark_as_seen of the same instance with
\* the same source_id and urls, and <<k>> for the step of query k+1 of a
\* get_stats whose queries so far were made in consecutive steps, none of
\* another instance or of the clock in between; data is response.data of get_source_counts,
\* the source_id of the rows in the order the store returned them
Ev(l, op, at, s, us, out, err, fail, calls, oks) ==
    [l |-> l, op |-> op, at |-> at, source_id |-> s, urls |-> us, out |-> out,
     err |-> err, fail |-> fail, calls |-> calls, oks |-> oks, after |-> <<>>,
     data |-> <<>>]

\* <<n>> when the step just taken was the return of n by mark_as_seen(s, us) of l
AfterMark(l, s, us) ==
    IF /\ last.op = "mark_as_seen" /\ last.at = "return" /\ last.l = l
       /\ last.source_id = s /\ last.urls = us
    THEN <<last.out>> ELSE <<>>

\* <<k>> when the step just taken was query k of the get_stats of l and, for
\* k > 1, the queries before it were consecutive steps too
AfterQuery(l, k) ==
    IF /\ last.op = "get_stats" /\ last.at = "step" /\ last.l = l /\ last.calls = k
       /\ (k > 1 => last.after = <<k - 1>>)
    THEN <<k>> ELSE <<>>

NotConnected(l, op, s, us) ==
    Ev(l, op, "raise", s, us, <<>>, "NotConnected", FALSE, 0, <<>>)

\* ------------------------------------------------------------------ the store
Rows(tbl, s) == {r \in tbl : r.source_id = s}

HasRow(tbl, s, u) == \E r \in tbl : r.source_id = s /\ r.url = u

\* upsert({source_id, url, last_checked}, on_conflict="source_id,url"):
\* insert when the pair has no row (first_seen defaults to the store's clock),
\* else update the columns of the payload, last_checked alone
UpsertPlainInsert(tbl, nid, s, u, t, dbnow) ==
    tbl \cup {[id |-> nid, source_id |-> s, url |-> u,
               first_seen |-> dbnow, last_checked |-> t]}

UpsertOverwrite(tbl, nid, s, u, t, dbnow) ==
    IF HasRow(tbl, s, u)
    THEN {IF r.source_id = s /\ r.url = u
          THEN [r EXCEPT !.last_checked = t, !.first_seen = dbnow] ELSE r : r \in tbl}
    ELSE tbl \cup {[id |-> nid, source_id |-> s, url |-> u,
                    first_seen |-> dbnow, last_checked |-> t]}

UpsertConflictOnUrl(tbl, nid, s, u, t, dbnow) ==
    IF \E r \in tbl : r.url = u
    THEN {IF r.url = u
          THEN [r EXCEPT !.source_id = s, !.last_checked = t] ELSE r : r \in tbl}
    ELSE tbl \cup {[id |-> nid, source_id |-> s, url |-> u,
                    first_seen |-> dbnow, last_checked |-> t]}

Upsert(tbl, nid, s, u, t, dbnow) ==
    IF HasRow(tbl, s, u)
    THEN {IF r.source_id = s /\ r.url = u
          THEN [r EXCEPT !.last_checked = t] ELSE r : r \in tbl}
    ELSE tbl \cup {[id |-> nid, source_id |-> s, url |-> u,
                    first_seen |-> dbnow, last_checked |-> t]}

\* select("url").eq("source_id", s).in_("url", urls): the urls of the rows found
SelectUrls(tbl, s, us) == {r.url : r \in {q \in Rows(tbl, s) : q.url \in Range(us)}}

\* select("id").eq("source_id", s).eq("url", u).limit(1): the rows found
SelectOne(tbl, s, u) ==
    LET found == {r \in Rows(tbl, s) : r.url = u}
    IN  IF found = {} THEN {} ELSE {CHOOSE r \in found : TRUE}

\* ------------------------------------------------------------------ Init
\* the instances of L with no call running, over an empty table whose id
\* sequence starts at 1: right after their construction (no client yet), or,
\* with connected, after a successful connect() of each
Constructed(L, connected) ==
    /\ table = {}
    /\ nextId = 1
    /\ now = 0
    /\ client = [l \in L |-> connected]
    /\ probed = [l \in L |-> connected]
    /\ fr = [l \in L |-> Idle]
    /\ seenPairs = {}
    /\ last = Ev("-", "init", "step", NoSource, <<>>, <<>>, "none", FALSE, 0, <<>>)

\* one tracker instance, SCRAPER_TEST_MODE set or not in its environment
Init ==
    /\ Constructed({"L1"}, FALSE)
    /\ testMode \in [{"L1"} -> BOOLEAN]

\* ------------------------------------------------------------------ actions
\* the clock advances
Tick ==
    /\ now < MaxTime
    /\ now' = now + 1
    /\ last' = Ev("-", "tick", "step", NoSource, <<>>, <<>>, "none", FALSE, 0, <<>>)
    /\ UNCHANGED <<table, nextId, testMode, client, probed, fr, seenPairs>>

\* connect(): nothing when self.client is set; else create_client, then the
\* probe select("id").limit(1).  self.client is assigned before the probe runs
\* and the except clause does not reset it.
ConnectReprobes(l) ==
    /\ fr[l].pc = "idle"
    /\ \E outcome \in {"ok", "create_failed", "probe_failed"} :
          /\ client' = [client EXCEPT ![l] = (outcome # "create_failed")]
          /\ probed' = [probed EXCEPT ![l] = (outcome = "ok")]
          /\ last' = Ev(l, "connect",
                        IF outcome = "ok" THEN "return" ELSE "raise",
                        NoSource, <<>>, <<>>,
                        IF outcome = "ok" THEN "none" ELSE "ConnectFailed",
                        outcome # "ok",
                        IF outcome = "create_failed" THEN 0 ELSE 1, <<>>)
    /\ UNCHANGED <<table, nextId, now, testMode, fr, seenPairs>>

Connect(l) ==
    /\ fr[l].pc = "idle"
    /\ \/ /\ client[l]
          /\ last' = Ev(l, "connect", "return", NoSource, <<>>, <<>>, "none", FALSE, 0, <<>>)
          /\ UNCHANGED <<client, probed>>
       \/ /\ ~client[l]
          /\ \E outcome \in {"ok", "create_failed", "probe_failed"} :
                /\ client' = [client EXCEPT ![l] = (outcome # "create_failed")]
                /\ probed' = [probed EXCEPT ![l] = (outcome = "ok")]
                /\ last' = Ev(l, "connect",
                              IF outcome = "ok" THEN "return" ELSE "raise",
                              NoSource, <<>>, <<>>,
                              IF outcome = "ok" THEN "none" ELSE "ConnectFailed",
                              outcome # "ok",
                              IF outcome = "create_failed" THEN 0 ELSE 1, <<>>)
    /\ UNCHANGED <<table, nextId, now, testMode, fr, seenPairs>>

\* close(): self.client = None
Close(l) ==
    /\ fr[l].pc = "idle"
    /\ client' = [client EXCEPT ![l] = FALSE]
    /\ probed' = [probed EXCEPT ![l] = FALSE]
    /\ last' = Ev(l, "close", "return", NoSource, <<>>, <<>>, "none", FALSE, 0, <<>>)
    /\ UNCHANGED <<table, nextId, now, testMode, fr, seenPairs>>

\* the list filter_new_articles returns from the query's rows
NewUrlsKeepSeen(us, seen_urls) == us

NewUrlsDedup(us, seen_urls) ==
    LET F[i \in 0..Len(us)] ==
            IF i = 0 THEN <<>>
            ELSE IF us[i] \in seen_urls \/ us[i] \in Range(F[i-1]) THEN F[i-1]
            ELSE Append(F[i-1], us[i])
    IN  F[Len(us)]

NewUrls(us, seen_urls) == SelectSeq(us, LAMBDA u : u \notin seen_urls)

\* filter_new_articles(source_id, urls) returns: its value, and the calls issued
FilterIgnoreTestMode(tm, tbl, s, us, fail) ==
    IF us = <<>> THEN [out |-> <<>>, calls |-> 0]
    ELSE IF fail THEN [out |-> us, calls |-> 1]
    ELSE [out |-> NewUrls(us, SelectUrls(tbl, s, us)), calls |-> 1]

FilterFailClosed(tm, tbl, s, us, fail) ==
    IF us = <<>> THEN [out |-> <<>>, calls |-> 0]
    ELSE IF tm THEN [out |-> us, calls |-> 0]
    ELSE IF fail THEN [out |-> <<>>, calls |-> 1]
    ELSE [out |-> NewUrls(us, SelectUrls(tbl, s, us)), calls |-> 1]

Filter(tm, tbl, s, us, fail) ==
    IF us = <<>> THEN [out |-> <<>>, calls |-> 0]
    ELSE IF tm THEN [out |-> us, calls |-> 0]
    ELSE IF fail THEN [out |-> us, calls |-> 1]
    ELSE [out |-> NewUrls(us, SelectUrls(tbl, s, us)), calls |-> 1]

FilterNewArticles(l) ==
    /\ fr[l].pc = "idle"
    /\ \E s \in Sources, us \in UrlLists, fail \in BOOLEAN :
          IF ~client[l]
          THEN /\ ~fail
               /\ last' = NotConnected(l, "filter_new_articles", s, us)
          ELSE LET r == Filter(testMode[l], table, s, us, fail)
               IN  /\ fail => r.calls > 0
                   /\ last' = [Ev(l, "filter_new_articles", "return", s, us, r.out,
                                  "none", fail, r.calls, <<>>)
                                  EXCEPT !.after = AfterMark(l, s, us)]
    /\ UNCHANGED <<table, nextId, now, testMode, client, probed, fr, seenPairs>>

\* is_seen(source_id, url) returns: its value, and the calls issued
IsSeenAnySource(tm, tbl, s, u, fail) ==
    IF tm THEN [out |-> FALSE, calls |-> 0]
    ELSE IF fail THEN [out |-> FALSE, calls |-> 1]
    ELSE [out |-> (\E r \in tbl : r.url = u), calls |-> 1]

IsSeenFailSeen(tm, tbl, s, u, fail) ==
    IF tm THEN [out |-> FALSE, calls |-> 0]
    ELSE IF fail THEN [out |-> TRUE, calls |-> 1]
    ELSE [out |-> Cardinality(SelectOne(tbl, s, u)) > 0, calls |-> 1]

IsSeenResult(tm, tbl, s, u, fail) ==
    IF tm THEN [out |-> FALSE, calls |-> 0]
    ELSE IF fail THEN [out |-> FALSE, calls |-> 1]
    ELSE [out |-> Cardinality(SelectOne(tbl, s, u)) > 0, calls |-> 1]

IsSeen(l) ==
    /\ fr[l].pc = "idle"
    /\ \E s \in Sources, u \in Urls, fail \in BOOLEAN :
          IF ~client[l]
          THEN /\ ~fail
               /\ last' = NotConnected(l, "is_seen", s, <<u>>)
          ELSE LET r == IsSeenResult(testMode[l], table, s, u, fail)
               IN  /\ fail => r.calls > 0
                   /\ last' = Ev(l, "is_seen", "return", s, <<u>>, r.out,
                                 "none", fail, r.calls, <<>>)
    /\ UNCHANGED <<table, nextId, now, testMode, client, probed, fr, seenPairs>>

\* mark_as_seen(source_id, urls), up to the loop: the client check, the empty
\* list, marked = 0 and current_time = utcnow()
MarkAsSeen(l) ==
    /\ fr[l].pc = "idle"
    /\ \E s \in Sources, us \in UrlLists :
          IF ~client[l]
          THEN /\ last' = NotConnected(l, "mark_as_seen", s, us)
               /\ fr' = fr
          ELSE IF us = <<>>
          THEN /\ last' = Ev(l, "mark_as_seen", "return", s, us, 0, "none", FALSE, 0, <<>>)
               /\ fr' = fr
          ELSE /\ last' = Ev(l, "mark_as_seen", "step", s, us, 0, "none", FALSE, 0, <<>>)
               /\ fr' = [fr EXCEPT ![l] = [Idle EXCEPT !.pc = "mark", !.source_id = s,
                                            !.urls = us, !.idx = 1,
                                            !.current_time = now]]
    /\ UNCHANGED <<table, nextId, now, testMode, client, probed, seenPairs>>

\* the table after the upsert of one loop iteration
MarkUpsertSkipInTestMode(l, u) ==
    IF testMode[l] THEN table
    ELSE Upsert(table, nextId, fr[l].source_id, u, fr[l].current_time, now)

MarkUpsert(l, u) == Upsert(table, nextId, fr[l].source_id, u, fr[l].current_time, now)

\* marked after one loop iteration
MarkedAfter(marked, ok) == IF ok THEN marked + 1 ELSE marked

\* the position after iteration idx of the loop over urls
NextIdxStopOnError(idx, n, ok) == IF ok THEN idx + 1 ELSE n + 1

NextIdxRetry(idx, n, ok) == IF ok THEN idx + 1 ELSE idx

NextIdx(idx, n, ok) == idx + 1

\* one iteration of the loop of mark_as_seen: the upsert of urls[idx], marked += 1
\* when it succeeds, continue when it raises; after the last one, return marked
MarkStep(l) ==
    /\ fr[l].pc = "mark"
    /\ \E ok \in BOOLEAN :
          LET f == fr[l]
              u == f.urls[f.idx]
              n == Len(f.urls)
              marked == MarkedAfter(f.marked, ok)
              idx == NextIdx(f.idx, n, ok)
              oks == Append(f.oks, ok)
              calls == f.calls + 1
              tbl == MarkUpsert(l, u)
          IN  /\ ok => (HasRow(table, f.source_id, u) \/ nextId <= MaxId)
              /\ table' = IF ok THEN tbl ELSE table
              /\ nextId' = IF ok /\ Cardinality(tbl) > Cardinality(table)
                           THEN nextId + 1 ELSE nextId
              /\ seenPairs' = IF ok
                              THEN seenPairs \cup {<<f.source_id, u>>} ELSE seenPairs
              /\ IF idx > n
                 THEN /\ fr' = [fr EXCEPT ![l] = Idle]
                      /\ last' = Ev(l, "mark_as_seen", "return", f.source_id, f.urls,
                                    marked, "none", ~ok, calls, oks)
                 ELSE /\ fr' = [fr EXCEPT ![l] = [f EXCEPT !.idx = idx, !.marked = marked,
                                                            !.oks = oks, !.calls = calls]]
                      /\ last' = Ev(l, "mark_as_seen", "step", f.source_id, f.urls,
                                    marked, "none", ~ok, calls, oks)
    /\ UNCHANGED <<now, testMode, client, probed>>

\* the rows get_stats aggregates: those of source_id, or all when it is falsy
Scope(tbl, s) == IF s # NoSource THEN Rows(tbl, s) ELSE tbl

\* select("first_seen").order("first_seen", desc=False / True).limit(1):
\* <<data[0]["first_seen"]>> if there is a row, else <<>> (None)
Oldest(rows) ==
    IF rows = {} THEN <<>>
    ELSE <<(CHOOSE r \in rows : \A q \in rows : r.first_seen <= q.first_seen).first_seen>>

Newest(rows) ==
    IF rows = {} THEN <<>>
    ELSE <<(CHOOSE r \in rows : \A q \in rows : r.first_seen >= q.first_seen).first_seen>>

StatsRecordSwapped(count, oldest, newest) ==
    [total_articles |-> count, oldest_seen |-> newest, newest_seen |-> oldest]

StatsRecord(count, oldest, newest) ==
    [total_articles |-> count, oldest_seen |-> oldest, newest_seen |-> newest]

\* what get_stats returns from its except clause
StatsDefault == StatsRecord(0, <<>>, <<>>)

\* get_stats(source_id): the client check and the count query
GetStats(l) ==
    /\ fr[l].pc = "idle"
    /\ \E s \in Sources \cup {NoSource}, fail \in BOOLEAN :
          IF ~client[l]
          THEN /\ ~fail
               /\ last' = NotConnected(l, "get_stats", s, <<>>)
               /\ fr' = fr
          ELSE IF fail
          THEN /\ last' = Ev(l, "get_stats", "return", s, <<>>, StatsDefault,
                             "none", TRUE, 1, <<>>)
               /\ fr' = fr
          ELSE /\ last' = Ev(l, "get_stats", "step", s, <<>>, <<>>, "none", FALSE, 1, <<>>)
               /\ fr' = [fr EXCEPT ![l] = [Idle EXCEPT !.pc = "stats_oldest",
                                            !.source_id = s, !.calls = 1,
                                            !.count = Cardinality(Scope(table, s))]]
    /\ UNCHANGED <<table, nextId, now, testMode, client, probed, seenPairs>>

\* get_stats: the query for the oldest first_seen
StatsOldest(l) ==
    /\ fr[l].pc = "stats_oldest"
    /\ \E fail \in BOOLEAN :
          LET f == fr[l]
          IN  IF fail
              THEN /\ last' = Ev(l, "get_stats", "return", f.source_id, <<>>, StatsDefault,
                                 "none", TRUE, f.calls + 1, <<>>)
                   /\ fr' = [fr EXCEPT ![l] = Idle]
              ELSE /\ last' = [Ev(l, "get_stats", "step", f.source_id, <<>>, <<>>,
                                  "none", FALSE, f.calls + 1, <<>>)
                                  EXCEPT !.after = AfterQuery(l, 1)]
                   /\ fr' = [fr EXCEPT ![l] = [f EXCEPT !.pc = "stats_newest",
                                                        !.calls = f.calls + 1,
                                                        !.oldest = Oldest(Scope(table, f.source_id))]]
    /\ UNCHANGED <<table, nextId, now, testMode, client, probed, seenPairs>>

\* get_stats: the query for the newest first_seen, and the return
StatsNewest(l) ==
    /\ fr[l].pc = "stats_newest"
    /\ \E fail \in BOOLEAN :
          LET f == fr[l]
          IN  /\ last' = [Ev(l, "get_stats", "return", f.source_id, <<>>,
                             IF fail THEN StatsDefault
                             ELSE StatsRecord(f.count, f.oldest,
                                              Newest(Scope(table, f.source_id))),
                             "none", fail, f.calls + 1, <<>>)
                             EXCEPT !.after = AfterQuery(l, 2)]
              /\ fr' = [fr EXCEPT ![l] = Idle]
    /\ UNCHANGED <<table, nextId, now, testMode, client, probed, seenPairs>>

\* the orders in which a select without order() may return the rows
RECURSIVE RowOrders(_)
RowOrders(rows) ==
    IF rows = {} THEN {<<>>}
    ELSE UNION {{<<r>> \o rest : rest \in RowOrders(rows \ {r})} : r \in rows}

\* counts[source_id] = counts.get(source_id, 0) + 1 over the rows: the entries
\* <<source_id, count>> in order of first insertion into the dict
RECURSIVE CountRows(_, _)
CountRows(data, counts) ==
    IF data = <<>> THEN counts
    ELSE LET s == Head(data).source_id
             at == {i \in 1..Len(counts) : counts[i][1] = s}
         IN  CountRows(Tail(data),
                       IF at = {} THEN Append(counts, <<s, 1>>)
                       ELSE LET i == CHOOSE i \in at : TRUE
                            IN  [counts EXCEPT ![i] = <<s, counts[i][2] + 1>>])

\* sorted(items, key=count, reverse=True): stable, equal counts keep their order
SortedByCountUnsorted(items) == items

RECURSIVE SortedByCount(_)
SortedByCount(items) ==
    IF items = <<>> THEN <<>>
    ELSE LET top == CHOOSE i \in 1..Len(items) :
                        /\ \A j \in 1..Len(items) : items[j][2] <= items[i][2]
                        /\ \A j \in 1..(i-1) : items[j][2] < items[i][2]
         IN  <<items[top]>> \o
             SortedByCount(SubSeq(items, 1, top - 1) \o SubSeq(items, top + 1, Len(items)))

\* get_source_counts()
GetSourceCounts(l) ==
    /\ fr[l].pc = "idle"
    /\ \E fail \in BOOLEAN :
          IF ~client[l]
          THEN /\ ~fail
               /\ last' = NotConnected(l, "get_source_counts", NoSource, <<>>)
          ELSE IF fail
          THEN last' = Ev(l, "get_source_counts", "return", NoSource, <<>>, <<>>,
                          "none", TRUE, 1, <<>>)
          ELSE \E data \in RowOrders(table) :
                  last' = [Ev(l, "get_source_counts", "return", NoSource, <<>>,
                              SortedByCount(CountRows(data, <<>>)), "none", FALSE, 1, <<>>)
                              EXCEPT !.data = [i \in 1..Len(data) |-> data[i].source_id]]
    /\ UNCHANGED <<table, nextId, now, testMode, client, probed, fr, seenPairs>>

\* the rows a delete leaves: delete().eq("source_id", s) of clear_source,
\* delete().neq("id", 0) of clear_all
DeleteSourceUnfiltered(tbl, s) == {}

DeleteSource(tbl, s) == {r \in tbl : r.source_id # s}

DeleteAll(tbl) == {r \in tbl : ~(r.id # 0)}

\* clear_source(source_id): the client check and the count query
ClearSource(l) ==
    /\ fr[l].pc = "idle"
    /\ \E s \in Sources, fail \in BOOLEAN :
          IF ~client[l]
          THEN /\ ~fail
               /\ last' = NotConnected(l, "clear_source", s, <<>>)
               /\ fr' = fr
          ELSE IF fail
          THEN /\ last' = Ev(l, "clear_source", "return", s, <<>>, 0, "none", TRUE, 1, <<>>)
               /\ fr' = fr
          ELSE /\ last' = Ev(l, "clear_source", "step", s, <<>>, 0, "none", FALSE, 1, <<>>)
               /\ fr' = [fr EXCEPT ![l] = [Idle EXCEPT !.pc = "clear_source_delete",
                                            !.source_id = s, !.calls = 1,
                                            !.count = Cardinality(Rows(table, s))]]
    /\ UNCHANGED <<table, nextId, now, testMode, client, probed, seenPairs>>

\* clear_source: the delete, and the return of the count
ClearSourceDelete(l) ==
    /\ fr[l].pc = "clear_source_delete"
    /\ \E fail \in BOOLEAN :
          LET f == fr[l]
          IN  /\ table' = IF fail THEN table ELSE DeleteSource(table, f.source_id)
              /\ seenPairs' = IF fail THEN seenPairs
                              ELSE {p \in seenPairs : p[1] # f.source_id}
              /\ last' = Ev(l, "clear_source", "return", f.source_id, <<>>,
                            IF fail THEN 0 ELSE f.count, "none", fail, f.calls + 1, <<>>)
              /\ fr' = [fr EXCEPT ![l] = Idle]
    /\ UNCHANGED <<nextId, now, testMode, client, probed>>

\* clear_all(): the client check and the count query
ClearAll(l) ==
    /\ fr[l].pc = "idle"
    /\ \E fail \in BOOLEAN :
          IF ~client[l]
          THEN /\ ~fail
               /\ last' = NotConnected(l, "clear_all", NoSource, <<>>)
               /\ fr' = fr
          ELSE IF fail
          THEN /\ last' = Ev(l, "clear_all", "return", NoSource, <<>>, 0, "none", TRUE, 1, <<>>)
               /\ fr' = fr
          ELSE /\ last' = Ev(l, "clear_all", "step", NoSource, <<>>, 0, "none", FALSE, 1, <<>>)
               /\ fr' = [fr EXCEPT ![l] = [Idle EXCEPT !.pc = "clear_all_delete",
                                            !.calls = 1,
                                            !.count = Cardinality(table)]]
    /\ UNCHANGED <<table, nextId, now, testMode, client, probed, seenPairs>>

\* clear_all: the delete, and the return of the count
ClearAllDelete(l) ==
    /\ fr[l].pc = "clear_all_delete"
    /\ \E fail \in BOOLEAN :
          LET f == fr[l]
          IN  /\ table' = IF fail THEN table ELSE DeleteAll(table)
              /\ seenPairs' = IF fail THEN seenPairs ELSE {}
              /\ last' = Ev(l, "clear_all", "return", NoSource, <<>>,
                            IF fail THEN 0 ELSE f.count, "none", fail, f.calls + 1, <<>>)
              /\ fr' = [fr EXCEPT ![l] = Idle]
    /\ UNCHANGED <<nextId, now, testMode, client, probed>>

Next ==
    \/ Tick
    \/ \E l \in Instances : Connect(l)
    \/ \E l \in Instances : Close(l)
    \/ \E l \in Instances : FilterNewArticles(l)
    \/ \E l \in Instances : IsSeen(l)
    \/ \E l \in Instances : MarkAsSeen(l)
    \/ \E l \in Instances : MarkStep(l)
    \/ \E l \in Instances : GetStats(l)
    \/ \E l \in Instances : StatsOldest(l)
    \/ \E l \in Instances : StatsNewest(l)
    \/ \E l \in Instances : GetSourceCounts(l)
    \/ \E l \in Instances : ClearSource(l)
    \/ \E l \in Instances : ClearSourceDelete(l)
    \/ \E l \in Instances : ClearAll(l)
    \/ \E l \in Instances : ClearAllDelete(l)

Spec == Init /\ [][Next]_vars

\* several instances, each after a successful connect(), TEST_MODE off, whose
\* calls interleave at every remote call
InitConc ==
    /\ Constructed(Ledgers, TRUE)
    /\ testMode = [l \in Ledgers |-> FALSE]

NextConc ==
    \/ \E l \in Instances : MarkAsSeen(l)
    \/ \E l \in Instances : MarkStep(l)
    \/ \E l \in Instances : ClearSource(l)
    \/ \E l \in Instances : ClearSourceDelete(l)
    \/ \E l \in Instances : ClearAll(l)
    \/ \E l \in Instances : ClearAllDelete(l)

SpecConc == InitConc /\ [][NextConc]_vars

\* The source does not fix the first value of the table's id sequence (the
\* schema does): one connected instance, TEST_MODE off, over a table whose
\* sequence starts at 0 or at 1
FirstIds == {0, 1}

InitIds ==
    /\ table = {}
    /\ nextId \in FirstIds
    /\ now = 0
    /\ testMode = [l \in {"L1"} |-> FALSE]
    /\ client = [l \in {"L1"} |-> TRUE]
    /\ probed = [l \in {"L1"} |-> TRUE]
    /\ fr = [l \in {"L1"} |-> Idle]
    /\ seenPairs = {}
    /\ last = Ev("-", "init", "step", NoSource, <<>>, <<>>, "none", FALSE, 0, <<>>)

NextIds ==
    \/ \E l \in Instances : MarkAsSeen(l)
    \/ \E l \in Instances : MarkStep(l)
    \/ \E l \in Instances : ClearAll(l)
    \/ \E l \in Instances : ClearAllDelete(l)
    \/ \E l \in Instances : GetStats(l)
    \/ \E l \in Instances : StatsOldest(l)
    \/ \E l \in Instances : StatsNewest(l)
    \/ \E l \in Instances : GetSourceCounts(l)

SpecIds == InitIds /\ [][NextIds]_vars

\* get_stats of one instance, whose queries interleave with the writes of
\* another (get_stats writes nothing, and an instance runs one call at a
\* time): several instances, each after a successful connect(), TEST_MODE off
StatsReaders == {"L1"}

NextStats ==
    \/ Tick
    \/ \E l \in StatsReaders : GetStats(l)
    \/ \E l \in StatsReaders : StatsOldest(l)
    \/ \E l \in StatsReaders : StatsNewest(l)
    \/ \E l \in Instances \ StatsReaders : MarkAsSeen(l)
    \/ \E l \in Instances \ StatsReaders : MarkStep(l)
    \/ \E l \in Instances \ StatsReaders : ClearAll(l)
    \/ \E l \in Instances \ StatsReaders : ClearAllDelete(l)
    \/ \E l \in Instances \ StatsReaders : ClearSource(l)
    \/ \E l \in Instances \ StatsReaders : ClearSourceDelete(l)

SpecStats == InitConc /\ [][NextStats]_vars

\* get_source_counts over the tables the program can have built: one connected
\* instance, TEST_MODE off, after the pairs of a list f were inserted in turn
MaxRows == 3     \* most rows of a table get_source_counts is applied to

InsertOrders ==
    UNION {{f \in [1..n -> Sources \X Urls] :
               \A i \in 1..n, j \in 1..n : f[i] = f[j] => i = j} : n \in 0..MaxRows}

InitCounts ==
    /\ \E f \in InsertOrders :
          /\ table = {[id |-> i, source_id |-> f[i][1], url |-> f[i][2],
                       first_seen |-> 0, last_checked |-> 0] : i \in 1..Len(f)}
          /\ nextId = Len(f) + 1
          /\ seenPairs = {f[i] : i \in 1..Len(f)}
    /\ now = 0
    /\ testMode = [l \in {"L1"} |-> FALSE]
    /\ client = [l \in {"L1"} |-> TRUE]
    /\ probed = [l \in {"L1"} |-> TRUE]
    /\ fr = [l \in {"L1"} |-> Idle]
    /\ last = Ev("-", "init", "step", NoSource, <<>>, <<>>, "none", FALSE, 0, <<>>)

NextCounts == \E l \in Instances : GetSourceCounts(l)

SpecCounts == InitCounts /\ [][NextCounts]_vars

\* ------------------------------------------------------------------ claims
\* the number of TRUE in a sequence of booleans
RECURSIVE CountTrue(_)
CountTrue(s) == IF s = <<>> THEN 0
                ELSE (IF Head(s) THEN 1 ELSE 0) + CountTrue(Tail(s))

\* the number of times x occurs in s
RECURSIVE Occurrences(_, _)
Occurrences(s, x) == IF s = <<>> THEN 0
                     ELSE (IF Head(s) = x THEN 1 ELSE 0) + Occurrences(Tail(s), x)

RECURSIVE IsSubseq(_, _)
\* s can be obtained from t by deleting elements (order kept)
IsSubseq(s, t) == IF s = <<>> THEN TRUE
                  ELSE IF t = <<>> THEN FALSE
                  ELSE IF Head(s) = Head(t) THEN IsSubseq(Tail(s), Tail(t))
                  ELSE IsSubseq(s, Tail(t))

\* the step just taken was the return of a call of op
Returned(op) == last.op = op /\ last.at = "return"

\* C1, as stated: with TEST_MODE off, a filter_new_articles(source_id, urls)
\* that directly follows mark_as_seen(source_id, urls) returns the empty list.
C1_MarkThenFilterEmpty ==
    (Returned("filter_new_articles") /\ ~testMode[last.l] /\ last.after # <<>>)
        => last.out = <<>>

\* C1, amended: with TEST_MODE off and no other instance writing to the table,
\* a filter_new_articles(source_id, urls) whose query does not fail and that
\* directly follows a mark_as_seen(source_id, urls) in which every upsert
\* succeeded (it returned len(urls)) returns the empty list.
C1_MarkThenFilterEmptyNoFailure ==
    (/\ Returned("filter_new_articles") /\ ~testMode[last.l]
     /\ last.after = <<Len(last.urls)>> /\ ~last.fail)
        => last.out = <<>>

C1_Witness ==
    /\ Returned("filter_new_articles") /\ ~testMode[last.l]
    /\ Len(last.urls) = 2 /\ last.urls[1] # last.urls[2]
    /\ last.after = <<2>> /\ ~last.fail /\ last.calls = 1
    /\ last.out = <<>>

\* C2: in every reachable state, whatever the interleaving of the upserts of
\* several instances, no two rows have the same (source_id, url), and the
\* number of rows of a source is the number of distinct pairs of that source
\* marked and not cleared since: marking a pair again adds no row.
C2_OneRowPerPair ==
    /\ \A r1 \in table, r2 \in table :
          (r1.source_id = r2.source_id /\ r1.url = r2.url) => r1 = r2
    /\ \A s \in Sources :
          Cardinality(Rows(table, s)) = Cardinality({p \in seenPairs : p[1] = s})

\* two instances are both inside mark_as_seen, each has upserted the same pair
C2_Witness ==
    /\ fr["L1"].pc = "mark" /\ fr["L2"].pc = "mark"
    /\ fr["L1"].source_id = fr["L2"].source_id
    /\ fr["L1"].urls[1] = fr["L2"].urls[1]
    /\ fr["L1"].oks = <<TRUE>> /\ fr["L2"].oks = <<TRUE>>
    /\ Cardinality(Rows(table, fr["L1"].source_id)) = 1

\* C3: with TEST_MODE off and no store failure, the list filter_new_articles
\* returns is a subsequence of its input, in which a URL that has a row for
\* source_id occurs no more and every other URL occurs as often as in the input.
C3_FilterExact ==
    (Returned("filter_new_articles") /\ ~testMode[last.l] /\ ~last.fail)
        => /\ IsSubseq(last.out, last.urls)
           /\ \A u \in Urls :
                 Occurrences(last.out, u) =
                     IF HasRow(table, last.source_id, u) THEN 0
                     ELSE Occurrences(last.urls, u)

\* the first URL of the input has a row and is removed, the second is kept
C3_Witness ==
    /\ Returned("filter_new_articles") /\ ~testMode[last.l] /\ ~last.fail
    /\ Len(last.urls) = 2 /\ HasRow(table, last.source_id, last.urls[1])
    /\ last.out = <<last.urls[2]>>

\* C4: when the query of filter_new_articles fails, the call returns its input
\* list unchanged and raises nothing, whatever rows exist, and the step leaves
\* the table as it was.
C4_FilterFailOpen ==
    [][(last'.op = "filter_new_articles" /\ last'.fail)
          => /\ last'.at = "return" /\ last'.err = "none"
             /\ last'.out = last'.urls
             /\ table' = table]_vars

C4_Witness ==
    /\ Returned("filter_new_articles") /\ last.fail
    /\ Len(last.urls) = 2
    /\ HasRow(table, last.source_id, last.urls[1])
    /\ last.out = last.urls

\* the methods that need a client
RuntimeOps == {"filter_new_articles", "mark_as_seen", "is_seen", "get_stats",
               "get_source_counts", "clear_source", "clear_all"}

\* C5: when no connect() of the instance has succeeded since its construction
\* or its last close(), also right after a connect() whose probe failed, every
\* method but connect and close raises the not-connected error and issues no
\* remote call.
C5_NotConnectedRaises ==
    (last.op \in RuntimeOps /\ ~probed[last.l])
        => (last.at = "raise" /\ last.err = "NotConnected" /\ last.calls = 0)

\* the step just taken was an upsert of mark_as_seen that succeeded
Upserted == last.op = "mark_as_seen" /\ last.oks # <<>> /\ last.oks[Len(last.oks)]

\* the URL of the upsert just attempted
UpsertUrl == last.urls[Len(last.oks)]

\* C6: mark_as_seen on a client raises nothing; when it returns, it has
\* attempted one upsert for every element of the list, failed ones included,
\* and its value is the number of upserts that succeeded; every upsert that
\* succeeded left a row of its pair.
C6_MarkCountsSuccesses ==
    /\ (last.op = "mark_as_seen" /\ client[last.l]) => last.err = "none"
    /\ Returned("mark_as_seen")
          => /\ Len(last.oks) = Len(last.urls)
             /\ last.out = CountTrue(last.oks)
    /\ Upserted => HasRow(table, last.source_id, UpsertUrl)

\* the first upsert failed, the second one was still made and recorded
C6_Witness ==
    /\ Returned("mark_as_seen")
    /\ last.oks = <<FALSE, TRUE>> /\ last.out = 1
    /\ last.urls[1] # last.urls[2]
    /\ HasRow(table, last.source_id, last.urls[2])
    /\ ~HasRow(table, last.source_id, last.urls[1])

\* C7: a step never changes the first_seen of a row that stays; a row that an
\* upsert inserts gets the time of its insertion as first_seen; after an upsert
\* of mark_as_seen that succeeded, last_checked of the pair's row is the
\* current_time of that call.
C7_FirstSeenKept ==
    [][/\ \A r \in table, q \in table' : q.id = r.id => q.first_seen = r.first_seen
       /\ Upserted' =>
             \A q \in table' :
                (q.source_id = last'.source_id /\ q.url = UpsertUrl') =>
                    /\ q.last_checked = fr[last'.l].current_time
                    /\ (\A r \in table : r.id # q.id) => q.first_seen = now]_vars

\* a row marked again later: first_seen is older than last_checked
C7_Witness ==
    /\ Upserted
    /\ \E r \in table :
          /\ r.source_id = last.source_id /\ r.url = UpsertUrl
          /\ r.first_seen = 0 /\ r.last_checked = 1

\* C8: with TEST_MODE off, is_seen raises nothing on a client; when its query
\* fails it returns false, and otherwise it returns true exactly when the pair
\* was upserted successfully by a mark_as_seen and not cleared since by
\* clear_source or clear_all, which is exactly when the pair has a row.
C8_IsSeenExact ==
    (Returned("is_seen") /\ ~testMode[last.l])
        => LET pair == <<last.source_id, last.urls[1]>>
           IN  /\ last.err = "none"
               /\ last.fail => last.out = FALSE
               /\ ~last.fail => (last.out = TRUE <=> pair \in seenPairs)
               /\ pair \in seenPairs <=> HasRow(table, pair[1], pair[2])

\* is_seen answers true for a pair marked after an earlier row was cleared
C8_Witness ==
    /\ Returned("is_seen") /\ ~testMode[last.l] /\ ~last.fail
    /\ last.out = TRUE
    /\ Cardinality(table) < nextId - 1

\* C9: with TEST_MODE on, on a client, filter_new_articles returns its input
\* list unchanged and is_seen returns false, whatever rows exist, and neither
\* issues a remote call.
C9_TestModeSeesNothing ==
    /\ (Returned("filter_new_articles") /\ testMode[last.l])
          => (last.out = last.urls /\ last.calls = 0)
    /\ (Returned("is_seen") /\ testMode[last.l])
          => (last.out = FALSE /\ last.calls = 0)

\* filter_new_articles returns URLs that have rows
C9_Witness ==
    /\ Returned("filter_new_articles") /\ testMode[last.l]
    /\ Len(last.urls) = 2
    /\ \A i \in 1..2 : HasRow(table, last.source_id, last.urls[i])
    /\ last.out = last.urls

\* C10, as stated: while TEST_MODE is on, the steps of filter_new_articles,
\* is_seen and mark_as_seen leave the rows and their timestamps as they were.
C10_TestModeNoWrite ==
    [][(last'.op \in {"filter_new_articles", "is_seen", "mark_as_seen"}
        /\ testMode[last'.l]) => table' = table]_vars

\* C10, amended: while TEST_MODE is on, the steps of filter_new_articles and
\* is_seen leave the rows and their timestamps as they were; mark_as_seen does
\* not look at TEST_MODE: each of its upserts that succeeds leaves a row of the
\* pair whose last_checked is the current_time of the call.
C10_TestModeReadsNoWrite ==
    [][/\ (last'.op \in {"filter_new_articles", "is_seen"} /\ testMode[last'.l])
             => table' = table
       /\ (Upserted' /\ testMode[last'.l])
             => \E q \in table' :
                   /\ q.source_id = last'.source_id /\ q.url = UpsertUrl'
                   /\ q.last_checked = fr[last'.l].current_time]_vars

\* with TEST_MODE on, an upsert of mark_as_seen has inserted a row
C10_Witness ==
    /\ Upserted /\ testMode[last.l]
    /\ \E r \in table :
          r.source_id = last.source_id /\ r.url = UpsertUrl /\ r.first_seen = now
    /\ now = 1

\* the step just taken was the return of a call of op whose delete went through
Cleared(op) == Returned(op) /\ ~last.fail /\ last.calls = 2

\* C11: the delete of a clear_source(s) that succeeds removes the rows of s and
\* no other: afterwards s has no row, and the rows of every other source are the
\* same rows, with the same first_seen and last_checked, so their counts too.
C11_ClearSourceExact ==
    [][Cleared("clear_source")' =>
          /\ Rows(table', last'.source_id) = {}
          /\ \A s \in Sources \ {last'.source_id} : Rows(table', s) = Rows(table, s)
          /\ table' \subseteq table]_vars

\* clear_source returned 1 for the row it removed and the other source's row stays
C11_Witness ==
    /\ Cleared("clear_source") /\ last.out = 1
    /\ Rows(table, last.source_id) = {}
    /\ Cardinality(table) = 1 /\ nextId = 3

\* C12: clear_source and clear_all return the number of rows their delete
\* removed, whatever other instances do between the count query and the delete,
\* and 0 when the call fails.
C12_ClearReturnsDeleted ==
    [][(last'.op \in {"clear_source", "clear_all"} /\ last'.at = "return")
          => last'.out = Cardinality(table) - Cardinality(table')]_vars

\* C13: after a clear_all() that succeeds no row is left, whatever the ids of
\* the rows were: the statistics over the table are 0, None and None and no
\* source has a count.
C13_ClearAllEmpties ==
    Cleared("clear_all")
        => /\ table = {}
           /\ StatsRecord(Cardinality(table), Oldest(table), Newest(table)) = StatsDefault
           /\ \A data \in RowOrders(table) : SortedByCount(CountRows(data, <<>>)) = <<>>

\* C14: on an instance with a client, a remote call that fails inside a runtime
\* method raises nothing out of the method: the step it fails in ends the call
\* with the method's degraded value (the input list, false, the 0/None/None
\* record, the empty mapping, 0), and mark_as_seen goes on and returns the
\* count of the upserts that succeeded.
C14_FailuresDegrade ==
    (last.op \in RuntimeOps /\ last.fail)
        => /\ last.err = "none"
           /\ last.op # "mark_as_seen" => last.at = "return"
           /\ last.op = "filter_new_articles" => last.out = last.urls
           /\ last.op = "mark_as_seen" => last.out = CountTrue(last.oks)
           /\ last.op = "is_seen" => last.out = FALSE
           /\ last.op = "get_stats" =>
                 last.out = [total_articles |-> 0, oldest_seen |-> <<>>,
                             newest_seen |-> <<>>]
           /\ last.op = "get_source_counts" => last.out = <<>>
           /\ last.op \in {"clear_source", "clear_all"} => last.out = 0

\* the third query of get_stats failed over a table that has rows
C14_Witness ==
    /\ Returned("get_stats") /\ last.fail /\ last.calls = 3
    /\ table # {}
    /\ last.out.total_articles = 0

\* the place of the first row of source s in response.data
FirstAt(s) == CHOOSE i \in 1..Len(last.data) :
                 last.data[i] = s /\ \A j \in 1..(i-1) : last.data[j] # s

\* C15: get_source_counts returns the empty mapping when its query fails, and
\* else one entry for each source that has a row, with the number of its rows,
\* the entries ordered by count, larger first, and entries of equal count in
\* the order in which their sources first appear in the rows the store returned.
C15_SourceCountsSorted ==
    Returned("get_source_counts") =>
        IF last.fail THEN last.out = <<>>
        ELSE LET out == last.out
                 n == Len(out)
             IN  /\ {out[i][1] : i \in 1..n} = {s \in Sources : Rows(table, s) # {}}
                 /\ \A i \in 1..n, j \in 1..n : out[i][1] = out[j][1] => i = j
                 /\ \A i \in 1..n : out[i][2] = Cardinality(Rows(table, out[i][1]))
                 /\ \A i \in 1..n, j \in 1..n :
                       i < j => /\ out[i][2] >= out[j][2]
                                /\ out[i][2] = out[j][2]
                                      => FirstAt(out[i][1]) < FirstAt(out[j][1])

\* the source with two rows comes first although a row of the other source was
\* returned first
C15_Witness ==
    /\ Returned("get_source_counts") /\ ~last.fail
    /\ Len(last.out) = 2
    /\ last.out[1][2] = 2 /\ last.out[2][2] = 1
    /\ last.data[1] = last.out[2][1]

\* C16: connect() on an instance that has a client keeps the client, issues no
\* probe and raises nothing; close() on an instance without a client leaves it
\* without one; after close() there is no client, after a connect() that
\* returns there is one; so a second connect() right after one that returned,
\* or a second close() right after a close(), changes nothing of the
\* connection; and no step of connect or close changes a row.
C16_ConnectCloseIdempotent ==
    [][/\ (last'.op = "connect" /\ client[last'.l])
             => /\ client' = client /\ probed' = probed
                /\ last'.at = "return" /\ last'.calls = 0
       /\ (last'.op = "close" /\ ~client[last'.l])
             => (client' = client /\ probed' = probed)
       /\ last'.op = "close" => ~client'[last'.l]
       /\ (last'.op = "connect" /\ last'.at = "return") => client'[last'.l]
       /\ (last.op = last'.op /\ last.l = last'.l /\ last.at = "return"
              /\ last'.op \in {"connect", "close"})
             => (client' = client /\ probed' = probed)
       /\ last'.op \in {"connect", "close"} => table' = table]_vars

\* connect() was called again on the connected instance, over a table with rows
C16_Witness ==
    /\ Returned("connect") /\ last.calls = 0
    /\ client[last.l] /\ probed[last.l]
    /\ table # {}

\* the most remote calls a method issues
CallLimit(op, us) ==
    CASE op = "mark_as_seen" -> Len(us)
      [] op = "filter_new_articles" -> IF us = <<>> THEN 0 ELSE 1
      [] op = "get_stats" -> 3
      [] op \in {"clear_source", "clear_all"} -> 2
      [] op \in {"is_seen", "get_source_counts", "connect"} -> 1
      [] OTHER -> 0

\* C17: no method retries a remote call: mark_as_seen has made one upsert
\* attempt per element handled so far, failed or not, and exactly len(urls)
\* when it returns; every other method issues at most its fixed number of calls
\* (filter_new_articles one, none on an empty list; is_seen and
\* get_source_counts one; get_stats three; clear_source and clear_all two); and
\* a call that goes on has issued fewer calls than its limit, so it ends.
C17_BoundedCalls ==
    /\ last.calls <= CallLimit(last.op, last.urls)
    /\ last.op = "mark_as_seen" => last.calls = Len(last.oks)
    /\ Returned("mark_as_seen") => last.calls = Len(last.urls)
    /\ (last.op \in RuntimeOps /\ last.at = "step")
          => last.calls < CallLimit(last.op, last.urls)
    /\ \A l \in Instances :
          fr[l].pc # "idle" =>
             \/ fr[l].pc = "mark" /\ fr[l].calls = fr[l].idx - 1
                                  /\ fr[l].idx <= Len(fr[l].urls)
             \/ fr[l].pc = "stats_oldest" /\ fr[l].calls = 1
             \/ fr[l].pc = "stats_newest" /\ fr[l].calls = 2
             \/ fr[l].pc \in {"clear_source_delete", "clear_all_delete"}
                   /\ fr[l].calls = 1

\* both upserts of a list of two failed and none was tried again
C17_Witness ==
    /\ Returned("mark_as_seen")
    /\ last.oks = <<FALSE, FALSE>> /\ last.calls = 2 /\ last.out = 0

\* C18: a step of mark_as_seen(s, urls) leaves the rows of every other source
\* as they are, so for every other source the answers of is_seen and of
\* filter_new_articles (TEST_MODE off, no failure) and the count of its rows are
\* the same before and after the step, also when the URL marked has a row
\* under the other source.
C18_SourcesIsolated ==
    [][last'.op = "mark_as_seen" =>
          \A s \in Sources \ {last'.source_id} :
             /\ Rows(table', s) = Rows(table, s)
             /\ Cardinality(Rows(table', s)) = Cardinality(Rows(table, s))
             /\ \A u \in Urls :
                   IsSeenResult(FALSE, table', s, u, FALSE).out
                       = IsSeenResult(FALSE, table, s, u, FALSE).out
             /\ \A us \in UrlLists :
                   Filter(FALSE, table', s, us, FALSE).out
                       = Filter(FALSE, table, s, us, FALSE).out]_vars

\* the URL just inserted under one source has a row under the other source
C18_Witness ==
    /\ Upserted
    /\ HasRow(table, last.source_id, UpsertUrl)
    /\ \E r \in table : r.url = UpsertUrl /\ r.source_id # last.source_id

\* the record get_stats returned
Stats == last.out

\* C19, as stated: the record get_stats returns has total_articles 0 exactly
\* when oldest_seen and newest_seen are None, and oldest_seen is not later than
\* newest_seen, whatever other instances do between its three queries.
C19_StatsConsistent ==
    Returned("get_stats") =>
        /\ Stats.total_articles = 0
              <=> (Stats.oldest_seen = <<>> /\ Stats.newest_seen = <<>>)
        /\ (Stats.oldest_seen # <<>> /\ Stats.newest_seen # <<>>)
              => Stats.oldest_seen[1] <= Stats.newest_seen[1]

\* C19 without interleaving: oldest_seen is never later than newest_seen when
\* get_stats returns both, whatever other instances do between its queries;
\* and when a query failed, or the three queries were made with no step of
\* another instance in between, total_articles is 0 exactly when oldest_seen
\* and newest_seen are None.
C19_StatsConsistentUndisturbed ==
    Returned("get_stats") =>
        /\ (Stats.oldest_seen # <<>> /\ Stats.newest_seen # <<>>)
              => Stats.oldest_seen[1] <= Stats.newest_seen[1]
        /\ (last.fail \/ last.after = <<2>>)
              => /\ Stats.total_articles = 0
                       <=> (Stats.oldest_seen = <<>> /\ Stats.newest_seen = <<>>)
                 /\ Stats.oldest_seen = <<>> <=> Stats.newest_seen = <<>>

\* three queries in a row over rows first seen at different times
C19_Witness ==
    /\ Returned("get_stats") /\ ~last.fail /\ last.after = <<2>>
    /\ Stats.total_articles = 2
    /\ Stats.oldest_seen = <<0>> /\ Stats.newest_seen = <<1>>

====
